---- MODULE Spec2Model ----
(***************************************************************************)
(* Model of BeagleG's motor-operations.c: the movement splitter            *)
(* (beagleg_enqueue), the segment synthesizer (beagleg_enqueue_internal),  *)
(* the dominant-axis selector (get_defining_axis_steps) and the            *)
(* queue/enable facade (beagleg_motor_enable, beagleg_wait_queue_empty)    *)
(* running against the backend motion queue and its consumer.              *)
(*                                                                         *)
(* Representation of numbers                                               *)
(*  - 64 bit fixed point values (hires_steps_per_div,                      *)
(*    hires_step_accumulator) are triples <<hi, mid, lo>> standing for     *)
(*    hi * 2^32 + mid * 2^16 + lo with mid, lo in 0..65535 and hi signed:  *)
(*    this is the two's complement value, and >> 32 (arithmetic) is hi.    *)
(*  - speeds are real numbers in the code (float / double, sqrt).  They    *)
(*    are kept exactly: a speed v that occurs while a request with         *)
(*    defining_axis_steps D is processed is represented by the integer     *)
(*    v^2 * D (v0^2 and v1^2 of the request are integers, so every         *)
(*    radicand the code forms is a multiple of 1/D).  Order and equality   *)
(*    of non-negative speeds are order and equality of these integers.     *)
(*    Floating point rounding is not modelled.                             *)
(*  - the timing fields that need TIMER_FREQUENCY and sqrtf                *)
(*    (travel_delay_cycles, accel_series_index, hires_accel_cycles) are    *)
(*    not part of the modelled segment.                                    *)
(***************************************************************************)
EXTENDS Integers, Sequences, FiniteSets, TLC

\* ------------------------------------------------------------------ bounds
\* Number of axes (BEAGLEG_NUM_MOTORS = MOTION_MOTOR_COUNT in the headers).
NumMotors == 2
\* Capacity of the backend's bounded motion queue.
QueueCap == 2

\* --------------------------------------------------------------- constants
LOOPS_PER_STEP == 2
MAX_STEPS_PER_SEGMENT == 65535 \div LOOPS_PER_STEP
\* 0xFFFFFFFF / LOOPS_PER_STEP
max_fraction == 2147483647

Axes == 0 .. (NumMotors - 1)

\* Step counts a caller asks for: around zero, at and just above the segment
\* limit, and in the ranges that split into 2, 3 and 4 divisions.
StepVals == {0, -1, 32767, 32769, -32769, 70000, -100000}
\* <<v0, v1>>: travel, accelerate, decelerate to a stop.
SpeedPairs == {<<1, 1>>, <<1, 2>>, <<2, 0>>}
AuxVals == {0, 5}

\* struct MotorMovement as the caller fills it
MotorMovement == [steps : [Axes -> StepVals], v : SpeedPairs, aux_bits : AuxVals]

NoReturn == -1

\* ------------------------------------------------------------- arithmetic
Abs(x) == IF x < 0 THEN -x ELSE x
Sq(x) == x * x

\* -x in two's complement
Neg64(x) ==
  IF x[2] = 0 /\ x[3] = 0 THEN <<-x[1], 0, 0>>
  ELSE IF x[3] = 0 THEN <<-x[1] - 1, 65536 - x[2], 0>>
  ELSE <<-x[1] - 1, 65535 - x[2], 65536 - x[3]>>

\* x + y
Add64(x, y) ==
  LET lo == x[3] + y[3]
      mid == x[2] + y[2] + (lo \div 65536)
  IN <<x[1] + y[1] + (mid \div 65536), mid % 65536, lo % 65536>>

\* (int64_t)s << 32
Shl32(s) == <<s, 0, 0>>

\* x >> 32
Shr32(x) == x[1]

\* x / n of C: the quotient truncated towards zero
DivTrunc64(x, n) ==
  LET m == IF x[1] < 0 THEN Neg64(x) ELSE x
      r0 == m[1] % n
      t1 == r0 * 65536 + m[2]
      r1 == t1 % n
      t2 == r1 * 65536 + m[3]
      q == <<m[1] \div n, t1 \div n, t2 \div n>>
  IN IF x[1] < 0 THEN Neg64(q) ELSE q

\* <<quotient, remainder>> of the 64 bit product a * b divided by n,
\* b = b3 * 2^24 + b2 * 2^16 + b1 * 2^8 + b0
MulDivRem(a, b, n) ==
  LET b3 == b \div 16777216
      b2 == (b \div 65536) % 256
      b1 == (b \div 256) % 256
      b0 == b % 256
      t3 == a * b3
      t2 == (t3 % n) * 256 + a * b2
      t1 == (t2 % n) * 256 + a * b1
      t0 == (t1 % n) * 256 + a * b0
  IN << (((t3 \div n) * 256 + (t2 \div n)) * 256 + (t1 \div n)) * 256 + (t0 \div n),
        t0 % n >>

\* ------------------------------------------------- get_defining_axis_steps
RECURSIVE defining_axis_loop(_, _, _)
defining_axis_loop(steps, i, defining_axis_steps) ==
  IF i >= NumMotors THEN defining_axis_steps
  ELSE defining_axis_loop(steps, i + 1,
         IF Abs(steps[i]) > defining_axis_steps
         THEN Abs(steps[i]) ELSE defining_axis_steps)

get_defining_axis_steps(steps) == defining_axis_loop(steps, 1, Abs(steps[0]))

\* ------------------------------------------------ beagleg_enqueue_internal
\* a bit is also set for an axis that does not move
RECURSIVE direction_bits_nonpositive(_, _)
direction_bits_nonpositive(steps, i) ==
  IF i >= NumMotors THEN 0
  ELSE (IF steps[i] <= 0 THEN 2 ^ i ELSE 0) + direction_bits_nonpositive(steps, i + 1)

RECURSIVE direction_bits_loop(_, _)
direction_bits_loop(steps, i) ==
  IF i >= NumMotors THEN 0
  ELSE (IF steps[i] < 0 THEN 2 ^ i ELSE 0) + direction_bits_loop(steps, i + 1)

\* the abs() of the step count is forgotten
Fraction_signed(step, defining_axis_steps) ==
  IF step < 0
  THEN -(MulDivRem(-step, max_fraction, defining_axis_steps)[1])
  ELSE MulDivRem(step, max_fraction, defining_axis_steps)[1]

Fraction(step, defining_axis_steps) ==
  MulDivRem(Abs(step), max_fraction, defining_axis_steps)[1]

\* the decelerate branch does not zero loops_travel
Phase_decel_keeps_travel(v0, v1, total_loops) ==
  IF v0 = v1
  THEN [loops_accel |-> 0, loops_travel |-> total_loops, loops_decel |-> 0]
  ELSE IF v0 < v1
  THEN [loops_accel |-> total_loops, loops_travel |-> 0, loops_decel |-> 0]
  ELSE [loops_accel |-> 0, loops_travel |-> total_loops, loops_decel |-> total_loops]

\* the three loop counters, by the comparison of v0 and v1
Phase(v0, v1, total_loops) ==
  IF v0 = v1
  THEN [loops_accel |-> 0, loops_travel |-> total_loops, loops_decel |-> 0]
  ELSE IF v0 < v1
  THEN [loops_accel |-> total_loops, loops_travel |-> 0, loops_decel |-> 0]
  ELSE [loops_accel |-> 0, loops_travel |-> 0, loops_decel |-> total_loops]

\* the MotionSegment handed to backend->enqueue for param
beagleg_enqueue_internal(param, defining_axis_steps) ==
  LET ph == Phase(param.v0, param.v1, LOOPS_PER_STEP * defining_axis_steps)
  IN [direction_bits |-> direction_bits_loop(param.steps, 0),
      fractions |-> [i \in Axes |-> Fraction(param.steps[i], defining_axis_steps)],
      loops_accel |-> ph.loops_accel,
      loops_travel |-> ph.loops_travel,
      loops_decel |-> ph.loops_decel,
      aux |-> param.aux_bits,
      state |-> "STATE_FILLED"]

\* --------------------------------------------------------- beagleg_enqueue
\* the zero-steps check reports the movement but returns success
zero_steps_check_returns_ok(defining_axis_steps) ==
  IF defining_axis_steps = 0
  THEN [returned |-> TRUE, err |-> 1, ret |-> 0]
  ELSE [returned |-> FALSE, err |-> 0, ret |-> NoReturn]

\* if (defining_axis_steps == 0) { fprintf(...); return 1; }
zero_steps_check(defining_axis_steps) ==
  IF defining_axis_steps = 0
  THEN [returned |-> TRUE, err |-> 1, ret |-> 1]
  ELSE [returned |-> FALSE, err |-> 0, ret |-> NoReturn]

\* the limit is taken in loops instead of steps
NeedsSplit_loops(defining_axis_steps) ==
  defining_axis_steps > LOOPS_PER_STEP * MAX_STEPS_PER_SEGMENT

\* if (defining_axis_steps > MAX_STEPS_PER_SEGMENT)
NeedsSplit(defining_axis_steps) == defining_axis_steps > MAX_STEPS_PER_SEGMENT

\* the + 1 is missing
Divisions_truncated(defining_axis_steps) == defining_axis_steps \div MAX_STEPS_PER_SEGMENT

Divisions(defining_axis_steps) == (defining_axis_steps \div MAX_STEPS_PER_SEGMENT) + 1

\* the + 1 for the LSB is missing
hires_steps_per_div_truncated(step, divisions) == DivTrunc64(Shl32(step), divisions)

hires_steps_per_div(step, divisions) ==
  Add64(DivTrunc64(Shl32(step), divisions), <<0, 0, 1>>)

\* the speed v of a request, as v^2 * defining_axis_steps
Speed(v, defining_axis_steps) == Sq(v) * defining_axis_steps

ZeroSteps == [i \in Axes |-> 0]
ZeroAcc == [i \in Axes |-> <<0, 0, 0>>]

VARIABLES
  movement,               \* the movement the caller wants executed
  param,                  \* argument of the beagleg_enqueue call in progress / last made
  pc,                     \* where the producer thread is
  ret,                    \* return value of the last beagleg_enqueue
  err_stream,             \* number of messages written by the call
  calls,                  \* calls of beagleg_enqueue_internal made by the call
  queue,                  \* backend: segments enqueued and not yet consumed
  motor_on,               \* backend: state of the motor enable line
  on,                     \* argument of the beagleg_motor_enable in progress
  d,                      \* split loop: division index
  hires_step_accumulator, \* split loop
  previous,               \* split loop: previous.steps
  previous_speed,         \* split loop
  output_aux              \* split loop: output.aux_bits, never assigned

splitVars == <<d, hires_step_accumulator, previous, previous_speed, output_aux>>
callVars == <<param, ret, err_stream, calls>>
vars == <<movement, param, pc, ret, err_stream, calls, queue, motor_on, on,
          d, hires_step_accumulator, previous, previous_speed, output_aux>>

Init ==
  /\ movement \in MotorMovement
  /\ param = movement
  /\ pc = "idle"
  /\ ret = NoReturn
  /\ err_stream = 0
  /\ calls = <<>>
  /\ queue = <<>>
  /\ motor_on = FALSE
  /\ on = FALSE
  /\ d = 0
  /\ hires_step_accumulator = ZeroAcc
  /\ previous = ZeroSteps
  /\ previous_speed = 0
  /\ output_aux = 0

\* The movements the caller issues: the movement itself, or nothing to move.
Requests == {movement, [movement EXCEPT !.steps = ZeroSteps]}

\* beagleg_enqueue up to its first backend->enqueue
beagleg_enqueue(m) ==
  LET defining_axis_steps == get_defining_axis_steps(m.steps)
      early == zero_steps_check(defining_axis_steps)
  IN
  /\ pc = "idle"
  /\ param' = m
  /\ calls' = <<>>
  /\ d' = 0
  /\ hires_step_accumulator' = ZeroAcc
  /\ previous' = ZeroSteps
  /\ previous_speed' = Speed(m.v[1], defining_axis_steps)
  /\ err_stream' = early.err
  /\ ret' = early.ret
  /\ IF early.returned
     THEN /\ pc' = "idle"
          /\ output_aux' = 0
     ELSE /\ IF NeedsSplit(defining_axis_steps)
             THEN /\ pc' = "enqueue_split"
                  /\ output_aux' \in AuxVals
             ELSE /\ pc' = "enqueue_single"
                  /\ output_aux' = 0
  /\ UNCHANGED <<movement, queue, motor_on, on>>

\* the request fits into one segment
EnqueueSingle ==
  LET defining_axis_steps == get_defining_axis_steps(param.steps)
      p == [steps |-> param.steps,
            v0 |-> Speed(param.v[1], defining_axis_steps),
            v1 |-> Speed(param.v[2], defining_axis_steps),
            aux_bits |-> param.aux_bits]
      new_element == beagleg_enqueue_internal(p, defining_axis_steps)
  IN
  /\ pc = "enqueue_single"
  /\ Len(queue) < QueueCap
  /\ queue' = Append(queue, new_element)
  /\ calls' = Append(calls, [param |-> p, defining_axis_steps |-> defining_axis_steps,
                             division |-> 0, seg |-> new_element])
  /\ ret' = 0
  /\ pc' = "idle"
  /\ UNCHANGED <<movement, param, err_stream, motor_on, on, splitVars>>

\* one pass of the loop over the divisions.  With speeds kept as
\* v^2 * defining_axis_steps, 2.0 * a * division_steps is
\* (v1^2 - v0^2) * division_steps, and sqrt of a clamped radicand is the
\* clamped radicand.
EnqueueDivision ==
  LET defining_axis_steps == get_defining_axis_steps(param.steps)
      divisions == Divisions(defining_axis_steps)
      acc == [i \in Axes |->
                Add64(hires_step_accumulator[i],
                      hires_steps_per_div(param.steps[i], divisions))]
      accumulator == [i \in Axes |-> Shr32(acc[i])]
      output_steps == [i \in Axes |-> accumulator[i] - previous[i]]
      division_steps == get_defining_axis_steps(output_steps)
      v0squared == previous_speed
      v1squared == v0squared
                   + (Sq(param.v[2]) - Sq(param.v[1])) * division_steps
      v1 == IF v1squared > 0 THEN v1squared ELSE 0
      output == [steps |-> output_steps, v0 |-> previous_speed, v1 |-> v1,
                 aux_bits |-> output_aux]
      new_element == beagleg_enqueue_internal(output, division_steps)
  IN
  /\ pc = "enqueue_split"
  /\ d < divisions
  /\ Len(queue) < QueueCap
  /\ queue' = Append(queue, new_element)
  /\ calls' = Append(calls, [param |-> output, defining_axis_steps |-> division_steps,
                             division |-> d, seg |-> new_element])
  /\ hires_step_accumulator' = acc
  /\ previous' = accumulator
  /\ previous_speed' = v1
  /\ d' = d + 1
  /\ IF d + 1 < divisions
     THEN /\ pc' = "enqueue_split"
          /\ ret' = ret
     ELSE /\ pc' = "idle"
          /\ ret' = 0
  /\ UNCHANGED <<movement, param, err_stream, motor_on, on, output_aux>>

\* beagleg_motor_enable: enters backend->wait_queue_empty
beagleg_motor_enable(o) ==
  /\ pc = "idle"
  /\ pc' = "motor_enable"
  /\ on' = o
  /\ UNCHANGED <<movement, callVars, queue, motor_on, splitVars>>

\* backend->motor_enable(on) without the wait
MotorEnableNoWait ==
  /\ pc = "motor_enable"
  /\ motor_on' = on
  /\ pc' = "idle"
  /\ UNCHANGED <<movement, callVars, queue, on, splitVars>>

\* beagleg_motor_enable: wait_queue_empty has returned, backend->motor_enable(on)
MotorEnableDrained ==
  /\ pc = "motor_enable"
  /\ queue = <<>>
  /\ motor_on' = on
  /\ pc' = "idle"
  /\ UNCHANGED <<movement, callVars, queue, on, splitVars>>

\* beagleg_wait_queue_empty: enters backend->wait_queue_empty
beagleg_wait_queue_empty ==
  /\ pc = "idle"
  /\ pc' = "wait_queue_empty"
  /\ UNCHANGED <<movement, callVars, queue, motor_on, on, splitVars>>

\* beagleg_wait_queue_empty: wait_queue_empty has returned
WaitQueueEmptyReturn ==
  /\ pc = "wait_queue_empty"
  /\ queue = <<>>
  /\ pc' = "idle"
  /\ UNCHANGED <<movement, callVars, queue, motor_on, on, splitVars>>

\* the real-time consumer plays back the oldest segment
Consume ==
  /\ queue # <<>>
  /\ queue' = Tail(queue)
  /\ UNCHANGED <<movement, callVars, pc, motor_on, on, splitVars>>

Next ==
  \/ \E m \in Requests : beagleg_enqueue(m)
  \/ EnqueueSingle
  \/ EnqueueDivision
  \/ \E o \in BOOLEAN : beagleg_motor_enable(o)
  \/ MotorEnableDrained
  \/ beagleg_wait_queue_empty
  \/ WaitQueueEmptyReturn
  \/ Consume

Spec == Init /\ [][Next]_vars

TypeOK ==
  /\ pc \in {"idle", "enqueue_single", "enqueue_split", "motor_enable", "wait_queue_empty"}
  /\ ret \in {NoReturn, 0, 1}
  /\ Len(queue) <= QueueCap

\* ------------------------------------------------------------------ claims
\* the whole movement's defining axis step count, of the call in progress
Defining == get_defining_axis_steps(param.steps)
\* the last beagleg_enqueue has returned 0
Done == ret = 0
IsSplit == Defining > MAX_STEPS_PER_SEGMENT
Bit(bits, i) == (bits \div (2 ^ i)) % 2 = 1
HalfScale == 2 ^ 30

RECURSIVE SumDeltas(_, _)
SumDeltas(i, k) ==
  IF k = 0 THEN 0 ELSE calls[k].param.steps[i] + SumDeltas(i, k - 1)

RECURSIVE SumDivisionSteps(_)
SumDivisionSteps(k) ==
  IF k = 0 THEN 0 ELSE calls[k].defining_axis_steps + SumDivisionSteps(k - 1)

\* C1: once a split request has been enqueued, the step deltas of its
\* divisions sum, for every axis, to exactly the requested steps[i].
StepConservation ==
  (Done /\ IsSplit) => \A i \in Axes : SumDeltas(i, Len(calls)) = param.steps[i]

\* a split into three divisions is complete, with an axis moving forward,
\* an axis moving backward and per-division targets that are not integers
StepConservationWitness ==
  /\ Done /\ IsSplit /\ Len(calls) = 3
  /\ \E i \in Axes : param.steps[i] = 70000
  /\ \E i \in Axes : param.steps[i] = -32769

\* C2: every segment handed to the backend for a request carries the
\* request's aux_bits, in the single-segment path and in every division.
AuxPassThrough ==
  \A k \in 1 .. Len(calls) : calls[k].seg.aux = param.aux_bits

\* C3: the exit speed of the final division of a split request is the
\* requested v1 (0 when v1 = 0): the divisions' defining-axis step counts
\* sum to the defining_axis_steps of the whole movement.
TerminalVelocity ==
  (Done /\ IsSplit) =>
     /\ calls[Len(calls)].param.v1 = Speed(param.v[2], Defining)
     /\ SumDivisionSteps(Len(calls)) = Defining

\* C4: in every segment handed to the backend exactly one of loops_accel,
\* loops_travel, loops_decel is non-zero and equals LOOPS_PER_STEP times the
\* segment's defining-axis steps; travel iff v0 = v1, accel iff v0 < v1,
\* decel iff v0 > v1.
PhaseExclusivity ==
  /\ \A k \in 1 .. Len(calls) :
       LET c == calls[k]
           total_loops == LOOPS_PER_STEP * c.defining_axis_steps
           nonzero == {f \in {"loops_accel", "loops_travel", "loops_decel"} : c.seg[f] # 0}
       IN /\ Cardinality(nonzero) = 1
          /\ \A f \in nonzero : c.seg[f] = total_loops
          /\ (c.seg.loops_travel # 0) <=> (c.param.v0 = c.param.v1)
          /\ (c.seg.loops_accel # 0) <=> (c.param.v0 < c.param.v1)
          /\ (c.seg.loops_decel # 0) <=> (c.param.v0 > c.param.v1)
  /\ \A k \in 1 .. Len(queue) :
       Cardinality({f \in {"loops_accel", "loops_travel", "loops_decel"} : queue[k][f] # 0}) = 1

\* a deceleration to a stop has been split and enqueued
PhaseExclusivityWitness ==
  /\ Done /\ IsSplit /\ param.v = <<2, 0>>
  /\ calls[Len(calls)].seg.loops_decel # 0

\* C5: a request with all steps zero is reported, returns non-zero and makes
\* no backend enqueue (the queue is left as it was); any other request
\* returns 0 and enqueues at least one segment.
ZeroLengthMovement ==
  /\ [](ret # NoReturn =>
          IF \A i \in Axes : param.steps[i] = 0
          THEN ret = 1 /\ err_stream = 1 /\ calls = <<>>
          ELSE ret = 0 /\ err_stream = 0 /\ Len(calls) >= 1)
  /\ [][(ret' = 1 /\ ret # 1) => queue' = queue]_vars
  /\ [][ret' = 1 => Len(queue') <= Len(queue)]_vars

\* a zero-length movement was refused while segments were pending
ZeroLengthMovementWitness ==
  /\ ret = 1 /\ pc = "idle" /\ calls = <<>> /\ queue # <<>>
  /\ \A i \in Axes : param.steps[i] = 0

\* C6: a request within the segment limit makes one backend enqueue; a
\* larger one makes floor(defining_axis_steps / MAX_STEPS_PER_SEGMENT) + 1,
\* in increasing division index, the first entering at the request's v0
\* and each later one at the exit speed of the one before.
DivisionOrder ==
  LET expected == IF IsSplit THEN (Defining \div MAX_STEPS_PER_SEGMENT) + 1 ELSE 1
  IN /\ Len(calls) <= expected
     /\ Done => Len(calls) = expected
     /\ \A k \in 1 .. Len(calls) :
          /\ calls[k].division = k - 1
          /\ calls[k].param.v0 = IF k = 1 THEN Speed(param.v[1], Defining)
                                 ELSE calls[k - 1].param.v1

\* steps = 100000 on the defining axis has been enqueued as 4 segments
DivisionOrderWitness ==
  Done /\ Defining = 100000 /\ Len(calls) = 4 /\ param.v = <<1, 2>>

\* C7 as stated: fractions[i] is within one unit of
\* |steps[i]| * 2^31 / defining_axis_steps, lies in [0, 2^31], and the
\* dominant axis gets the full scale 2^31.
FractionFullScale ==
  \A k \in 1 .. Len(calls) : \A i \in Axes :
    LET c == calls[k]
        f == c.seg.fractions[i]
        s == Abs(c.param.steps[i])
        qr == MulDivRem(s, HalfScale, c.defining_axis_steps)
        exact_minus_f == (qr[1] - f) + qr[1]
                         + (IF 2 * qr[2] >= c.defining_axis_steps THEN 1 ELSE 0)
    IN (~IsSplit) =>
         /\ f >= 0 /\ f - HalfScale <= HalfScale
         /\ exact_minus_f \in -1 .. 1
         /\ (s = c.defining_axis_steps) => (f - HalfScale = HalfScale)

\* C7 amended: fractions[i] is floor(|steps[i]| * 2^31 / defining_axis_steps)
\* or one below it, lies in [0, 2^31 - 1], and the dominant axis gets
\* max_fraction = 0xFFFFFFFF / LOOPS_PER_STEP = 2^31 - 1.
FractionCorrect ==
  \A k \in 1 .. Len(calls) : \A i \in Axes :
    LET c == calls[k]
        f == c.seg.fractions[i]
        s == Abs(c.param.steps[i])
        qr == MulDivRem(s, HalfScale, c.defining_axis_steps)
        exact_minus_f == (qr[1] - f) + qr[1]
                         + (IF 2 * qr[2] >= c.defining_axis_steps THEN 1 ELSE 0)
    IN (~IsSplit) =>
         /\ f >= 0 /\ f - HalfScale <= HalfScale - 1
         /\ exact_minus_f \in 0 .. 1
         /\ (s = c.defining_axis_steps) => (f - HalfScale = HalfScale - 1)
         /\ (s = 0) => (f = 0)

\* a single segment at the segment limit, with a backward axis that gets
\* floor(1 * (2^31 - 1) / 32767)
FractionCorrectWitness ==
  /\ Done /\ ~IsSplit /\ Len(calls) = 1
  /\ \E i \in Axes : param.steps[i] = 32767 /\ calls[1].seg.fractions[i] = max_fraction
  /\ \E i \in Axes : param.steps[i] = -1 /\ calls[1].seg.fractions[i] = 65538

\* C8: direction bit i of a segment is set iff the step count it was
\* synthesized from is negative; no division of a split moves an axis
\* against the sign of the request, so a division that moves axis i has
\* bit i set iff the request's steps[i] < 0.
DirectionBits ==
  \A k \in 1 .. Len(calls) : \A i \in Axes :
    LET c == calls[k] IN
    /\ Bit(c.seg.direction_bits, i) <=> (c.param.steps[i] < 0)
    /\ (param.steps[i] >= 0) => (c.param.steps[i] >= 0)
    /\ (param.steps[i] <= 0) => (c.param.steps[i] <= 0)
    /\ (c.param.steps[i] # 0) => (Bit(c.seg.direction_bits, i) <=> (param.steps[i] < 0))

\* a split request with a backward, a forward or resting axis is complete
DirectionBitsWitness ==
  /\ Done /\ IsSplit
  /\ \E i \in Axes : param.steps[i] = -100000 /\ Bit(calls[Len(calls)].seg.direction_bits, i)
  /\ \E i \in Axes : param.steps[i] >= 0 /\ ~Bit(calls[Len(calls)].seg.direction_bits, i)

\* C9: the backend's motor_enable is called only after wait_queue_empty has
\* returned: the enable line changes, and beagleg_motor_enable returns, only
\* with no segment pending in the queue.
DrainBeforeEnable ==
  /\ [][motor_on' # motor_on => (pc = "motor_enable" /\ queue = <<>> /\ motor_on' = on)]_vars
  /\ [][(pc = "motor_enable" /\ pc' # pc) => (queue = <<>> /\ queue' = <<>> /\ motor_on' = on)]_vars

\* the motors were enabled after a split request had been enqueued and drained
DrainBeforeEnableWitness ==
  motor_on /\ pc = "idle" /\ Done /\ Len(calls) >= 2 /\ queue = <<>>

\* C10: every call of beagleg_enqueue_internal gets a defining-axis step
\* count d with 1 <= d <= MAX_STEPS_PER_SEGMENT, so LOOPS_PER_STEP * d fits
\* the 16 bit loop counter.
SynthesizerPrecondition ==
  \A k \in 1 .. Len(calls) :
    /\ calls[k].defining_axis_steps >= 1
    /\ calls[k].defining_axis_steps <= MAX_STEPS_PER_SEGMENT
    /\ LOOPS_PER_STEP * calls[k].defining_axis_steps <= 65535

\* all four divisions of a request with extreme skew between its axes
\* (100000 steps against 1) have been synthesized
SynthesizerPreconditionWitness ==
  /\ Done /\ IsSplit /\ Len(calls) = 4
  /\ \E i \in Axes : param.steps[i] = -1
====
